---- MODULE Spec2Model ----
(***************************************************************************)
(* Research pipeline of the chatbot: the POST /research route handler      *)
(* (validation, authentication, the three-stage orchestrator writing to    *)
(* the UI message stream, the completion handler) and the source extractor *)
(* extractSourcesFromContent.                                              *)
(*                                                                         *)
(* Text that the extractor scans is a sequence of one-character strings,   *)
(* so the regular expression and the URL parsing are modelled character by *)
(* character.                                                              *)
(***************************************************************************)
EXTENDS Integers, Sequences, FiniteSets, TLC

\* ------------------------------------------------------------------------
\* Bounds of the model
\* ------------------------------------------------------------------------
MaxFrags == 3      \* fragments concatenated into one extractor input
MaxTokens == 2     \* text deltas the synthesis stream yields at most
MaxEvents == 3     \* deltas and resets applied to one reducer state
MaxToggles == 2    \* times the user toggles one Reasoning panel

\* ------------------------------------------------------------------------
\* Text helpers
\* ------------------------------------------------------------------------
RECURSIVE IndexFrom(_, _, _)
\* least index >= i at which character c occurs in s, 0 when there is none
IndexFrom(s, c, i) ==
    IF i > Len(s) THEN 0
    ELSE IF s[i] = c THEN i
    ELSE IndexFrom(s, c, i + 1)

\* s carries the characters of p at positions i, i+1, ...
StartsWithAt(s, i, p) ==
    /\ i >= 1
    /\ i + Len(p) - 1 <= Len(s)
    /\ \A k \in 1..Len(p) : s[i + k - 1] = p[k]

Http == <<"h", "t", "t", "p">>
SchemeSep == <<":", "/", "/">>

\* ------------------------------------------------------------------------
\* urlRegex  /\[([^\]]+)\]\((https?:\/\/[^)]+)\)/g
\* ------------------------------------------------------------------------
NoMatch == [ok |-> FALSE, title |-> <<>>, url |-> <<>>, last |-> 0]

\* the regular expression without its scheme requirement: \(([^)]+)\)
AfterAnyScheme(s, u) ==
    IF u >= 1 /\ u <= Len(s) THEN u ELSE 0

\* position right after "http" or "https" followed by "://", 0 if the text
\* at u does not start with such a scheme
AfterScheme(s, u) ==
    IF ~StartsWithAt(s, u, Http) THEN 0
    ELSE IF StartsWithAt(s, u + 4, SchemeSep) THEN u + 7
    ELSE IF StartsWithAt(s, u + 4, <<"s">>) /\ StartsWithAt(s, u + 5, SchemeSep)
         THEN u + 8
    ELSE 0

\* one attempt of the regular expression anchored at position i
MatchAt(s, i) ==
    IF ~(i <= Len(s) /\ s[i] = "[") THEN NoMatch
    ELSE LET j == IndexFrom(s, "]", i + 1)          \* [^\]]+ ends at the first ]
         IN IF j = 0 \/ j = i + 1 THEN NoMatch
            ELSE IF ~StartsWithAt(s, j + 1, <<"(">>) THEN NoMatch
            ELSE LET p == AfterScheme(s, j + 2)
                 IN IF p = 0 THEN NoMatch
                    ELSE LET k == IndexFrom(s, ")", p)   \* [^)]+ ends at the first )
                         IN IF k = 0 \/ k = p THEN NoMatch
                            ELSE [ok |-> TRUE,
                                  title |-> SubSeq(s, i + 1, j - 1),
                                  url |-> SubSeq(s, j + 2, k - 1),
                                  last |-> k]

RECURSIVE MatchAllFrom(_, _)
\* content.matchAll(urlRegex): leftmost matches, left to right, not overlapping
MatchAllFrom(s, i) ==
    IF i > Len(s) THEN <<>>
    ELSE LET m == MatchAt(s, i)
         IN IF m.ok THEN <<[title |-> m.title, url |-> m.url]>>
                         \o MatchAllFrom(s, m.last + 1)
            ELSE MatchAllFrom(s, i + 1)

MatchAll(s) == MatchAllFrom(s, 1)

\* ------------------------------------------------------------------------
\* new URL(url).hostname for the urls the regular expression lets through
\* (scheme http or https).  Modelled: trailing spaces are stripped, extra
\* slashes after the scheme are skipped, the authority ends at the first
\* "/", "?" or "#", a port after ":" must be empty or digits, the host must
\* be non-empty and free of forbidden host code points, and ASCII letters of
\* the host are lower-cased.  Hosts in the bounded inputs are letters and
\* dots, so IPv4 and IDNA processing do not come into play.
\* ------------------------------------------------------------------------
Lower(c) ==
    CASE c = "A" -> "a" [] c = "B" -> "b" [] c = "C" -> "c" [] c = "H" -> "h"
      [] c = "P" -> "p" [] c = "T" -> "t" [] c = "U" -> "u" [] OTHER -> c

LowerSeq(s) == [k \in 1..Len(s) |-> Lower(s[k])]

Digits == {"0", "1", "2", "3", "4", "5", "6", "7", "8", "9"}
AuthorityEnd == {"/", "?", "#"}
ForbiddenHost == {" ", "#", "/", ":", "<", ">", "?", "@", "[", "\\", "]", "^", "|", "%"}

RECURSIVE StripTrailing(_)
StripTrailing(s) ==
    IF Len(s) > 0 /\ s[Len(s)] = " " THEN StripTrailing(SubSeq(s, 1, Len(s) - 1))
    ELSE s

RECURSIVE SkipSlashes(_, _)
SkipSlashes(s, i) ==
    IF i <= Len(s) /\ s[i] \in {"/", "\\"} THEN SkipSlashes(s, i + 1) ELSE i

RECURSIVE FirstIn(_, _, _)
\* least index >= i whose character is in set S, Len(s)+1 when there is none
FirstIn(s, S, i) ==
    IF i > Len(s) THEN Len(s) + 1
    ELSE IF s[i] \in S THEN i
    ELSE FirstIn(s, S, i + 1)

InvalidUrl == [ok |-> FALSE, hostname |-> <<>>]

SpecialSchemes == {Http, Http \o <<"s">>}

ParseUrl(url) ==
    LET u == StripTrailing(url)
        colon == FirstIn(u, {":"}, 1)
    IN IF colon = 1 \/ colon > Len(u) THEN InvalidUrl      \* no scheme, no base
       ELSE IF LowerSeq(SubSeq(u, 1, colon - 1)) \notin SpecialSchemes
       THEN \* not a special scheme: an opaque path has the empty hostname
            IF ~StartsWithAt(u, colon + 1, <<"/", "/">>)
            THEN [ok |-> TRUE, hostname |-> <<>>]
            ELSE LET e == FirstIn(u, AuthorityEnd, colon + 3)
                     host == SubSeq(u, colon + 3, e - 1)
                 IN IF \E k \in 1..Len(host) : host[k] \in ForbiddenHost
                    THEN InvalidUrl
                    ELSE [ok |-> TRUE, hostname |-> host]
       ELSE LET a == SkipSlashes(u, colon + 1)
                e == FirstIn(u, AuthorityEnd \cup {"\\"}, a)
                authority == SubSeq(u, a, e - 1)
                at == FirstIn(authority, {"@"}, 1)
                hostport == IF at <= Len(authority)
                            THEN SubSeq(authority, at + 1, Len(authority))
                            ELSE authority
                c == FirstIn(hostport, {":"}, 1)
                host == SubSeq(hostport, 1, c - 1)
                port == SubSeq(hostport, c + 1, Len(hostport))
            IN IF host = <<>> THEN InvalidUrl
               ELSE IF \E k \in 1..Len(host) : host[k] \in ForbiddenHost THEN InvalidUrl
               ELSE IF \E k \in 1..Len(port) : port[k] \notin Digits THEN InvalidUrl
               ELSE [ok |-> TRUE, hostname |-> LowerSeq(host)]

\* ------------------------------------------------------------------------
\* extractSourcesFromContent
\* ------------------------------------------------------------------------
\* A call either returns its array or raises: [raised, sources]

\* the body of the try without the catch: an invalid url raises
PushSourceNoCatch(sources, title, url) ==
    LET parsed == ParseUrl(url)
    IN IF parsed.ok
       THEN [raised |-> FALSE,
             sources |-> Append(sources, [title |-> title, url |-> url,
                                          domain |-> parsed.hostname])]
       ELSE [raised |-> TRUE, sources |-> sources]

\* try { sources.push({ title, url, domain: new URL(url).hostname }) }
\* catch { skip invalid URLs }
PushSource(sources, title, url) ==
    LET parsed == ParseUrl(url)
    IN IF parsed.ok
       THEN [raised |-> FALSE,
             sources |-> Append(sources, [title |-> title, url |-> url,
                                          domain |-> parsed.hostname])]
       ELSE [raised |-> FALSE, sources |-> sources]

RECURSIVE ExtractLoopNoSeen(_, _, _, _)
\* the loop without the seen.has(url) test
ExtractLoopNoSeen(matches, i, seen, sources) ==
    IF i > Len(matches) THEN [raised |-> FALSE, sources |-> sources]
    ELSE LET pushed == PushSource(sources, matches[i].title, matches[i].url)
         IN IF pushed.raised THEN pushed
            ELSE ExtractLoopNoSeen(matches, i + 1, seen \cup {matches[i].url},
                                   pushed.sources)

RECURSIVE ExtractLoop(_, _, _, _)
\* the for loop over the matches: seen is the Set of urls, sources the array
ExtractLoop(matches, i, seen, sources) ==
    IF i > Len(matches) THEN [raised |-> FALSE, sources |-> sources]
    ELSE LET title == matches[i].title
             url == matches[i].url
         IN IF url \notin seen
            THEN LET pushed == PushSource(sources, title, url)
                 IN IF pushed.raised THEN pushed
                    ELSE ExtractLoop(matches, i + 1, seen \cup {url}, pushed.sources)
            ELSE ExtractLoop(matches, i + 1, seen, sources)

\* the outcome of one call
extractSourcesFromContent(content) ==
    ExtractLoop(MatchAll(content), 1, {}, <<>>)

\* ------------------------------------------------------------------------
\* Texts the model feeds to the extractor: concatenations of these fragments
\* ------------------------------------------------------------------------
\* [A](https://x.com)
FragA ==
    <<"[", "A", "]", "(", "h", "t", "t", "p", "s", ":", "/", "/", "x", ".", "c", "o", "m", ")">>
\* [B](https://x.com/page)
FragB ==
    <<"[", "B", "]", "(", "h", "t", "t", "p", "s", ":", "/", "/", "x", ".", "c", "o", "m", "/", "p", "a", "g", "e", ")">>
\* [C](https://x.com)
FragC ==
    <<"[", "C", "]", "(", "h", "t", "t", "p", "s", ":", "/", "/", "x", ".", "c", "o", "m", ")">>
\* [ok](http://a.b)
FragOk ==
    <<"[", "o", "k", "]", "(", "h", "t", "t", "p", ":", "/", "/", "a", ".", "b", ")">>
\* [U](http://A.B/)
FragUp ==
    <<"[", "U", "]", "(", "h", "t", "t", "p", ":", "/", "/", "A", ".", "B", "/", ")">>
\* [not a link](javascript:alert(1))
FragJs ==
    <<"[", "n", "o", "t", " ", "a", " ", "l", "i", "n", "k", "]", "(", "j", "a", "v", "a", "s", "c", "r", "i", "p", "t", ":", "a", "l", "e", "r", "t", "(", "1", ")", ")">>
\* [bad](http://a b)
FragBad ==
    <<"[", "b", "a", "d", "]", "(", "h", "t", "t", "p", ":", "/", "/", "a", " ", "b", ")">>
\* [
FragOpen ==
    <<"[">>
\* [D](http://d
FragUnclosed ==
    <<"[", "D", "]", "(", "h", "t", "t", "p", ":", "/", "/", "d">>
Fragments ==
    {FragA, FragB, FragC, FragOk, FragUp, FragJs, FragBad, FragOpen, FragUnclosed}

\* ------------------------------------------------------------------------
\* Inputs of POST /research
\* ------------------------------------------------------------------------
maxQueryLength == 2000

Ids == {"uuid-1", "uuid-2", "not-a-uuid"}
IsUuid(s) == s \in {"uuid-1", "uuid-2"}

\* a query is its text and the length of that text
Queries ==
    { [text |-> "", length |-> 0],
      [text |-> "q", length |-> 1],
      [text |-> "Q-max", length |-> 2000],
      [text |-> "Q-over", length |-> 2001] }

\* request.json() either throws (jsonOk = FALSE) or yields the body
Requests == [jsonOk : BOOLEAN, id : Ids, chatId : Ids, query : Queries]

\* the schema with the length bound off by one
researchRequestSchemaOffByOne(body) ==
    /\ IsUuid(body.id)
    /\ body.query.length >= 1
    /\ body.query.length <= maxQueryLength + 1
    /\ IsUuid(body.chatId)

\* researchRequestSchema.parse(json) succeeds
researchRequestSchema(body) ==
    /\ IsUuid(body.id)
    /\ body.query.length >= 1
    /\ body.query.length <= maxQueryLength
    /\ IsUuid(body.chatId)

\* texts the rewriter model may answer with
RewriteTexts == {"", "rw-1", "rw-2"}

\* texts the web search model may answer with
SearchTexts == {<<>>, FragA \o FragB \o FragA, FragJs, FragBad \o FragOk}

\* ------------------------------------------------------------------------
\* Chunks written to the UI message stream
\* ------------------------------------------------------------------------
Null == "null"
StatusType == "data-research-status"
ResearchStatus == {"rewriting-query", "searching", "synthesizing", "complete", "error"}

Status(s) == [type |-> StatusType, data |-> s]
QueryRewritten(t) == [type |-> "data-research-query-rewritten", data |-> t]
\* the chunk under a type the reducer does not know
SearchResultsMistyped(t) == [type |-> "data-research-search-result", data |-> t]
SearchResults(t) == [type |-> "data-research-search-results", data |-> t]
Sources(s) == [type |-> "data-research-sources", data |-> s]
SynthesisStart == [type |-> "data-research-synthesis-start", data |-> Null]
Complete == [type |-> "data-research-complete", data |-> Null]
\* one text delta of the merged synthesis stream, n counts them
TextDelta(n) == [type |-> "text-delta", data |-> n]
\* the chunk the transport writes for an error, carrying onError's text
ErrorChunk(t) == [type |-> "error", data |-> t]

onError == "Research failed. Please try again."

\* ------------------------------------------------------------------------
\* Prompts of the three stage calls
\* ------------------------------------------------------------------------
RewritePrompt(query) == <<"queryRewriter", query.text>>
SearchPrompt(rewritten) == <<"webSearch", rewritten>>

\* sources.map((s) => `- ${s.title}: ${s.url}`)
FormatSources(srcs) == [k \in 1..Len(srcs) |-> <<srcs[k].title, srcs[k].url>>]

\* a synthesis prompt that repeats the original query for the rewritten one
SynthesisPromptOwnQuery(query, rewritten, content, srcs) ==
    <<"synthesis", query.text, query.text, content, FormatSources(srcs)>>

SynthesisPrompt(query, rewritten, content, srcs) ==
    <<"synthesis", query.text, rewritten, content, FormatSources(srcs)>>

\* ------------------------------------------------------------------------
\* Responses and persistence
\* ------------------------------------------------------------------------
\* HTTP status of new ChatSDKError(code).toResponse()
toResponse(code) ==
    CASE code = "bad_request:api" -> 400
      [] code = "unauthorized:chat" -> 401
      [] OTHER -> 500

\* status of createUIMessageStreamResponse({ stream })
StreamResponse == 200

ResponseMessageId == "msg-1"

\* the messages the transport hands to onFinish: the one response message
\* of the run, its parts being the chunks written so far
FinishedMessages(chunks) ==
    << [id |-> ResponseMessageId, role |-> "assistant", parts |-> chunks] >>

\* the mapping tagging each message with its own id instead of the chatId
ToDbMessagesOwnId(finishedMessages, chatId) ==
    [k \in 1..Len(finishedMessages) |->
        [id |-> finishedMessages[k].id,
         chatId |-> finishedMessages[k].id,
         role |-> finishedMessages[k].role,
         parts |-> finishedMessages[k].parts,
         attachments |-> <<>>]]

\* finishedMessages.map((msg) => ({ id, chatId, role, parts, ... }))
ToDbMessages(finishedMessages, chatId) ==
    [k \in 1..Len(finishedMessages) |->
        [id |-> finishedMessages[k].id,
         chatId |-> chatId,
         role |-> finishedMessages[k].role,
         parts |-> finishedMessages[k].parts,
         attachments |-> <<>>]]

\* ------------------------------------------------------------------------
\* Client reducer: useResearchState
\* ------------------------------------------------------------------------
\* a nullable field is None (null) or Some(v)
None == [isNull |-> TRUE]
Some(v) == [isNull |-> FALSE, value |-> v]

initialState ==
    [status |-> None,
     rewrittenQuery |-> None,
     searchResults |-> None,
     sources |-> <<>>,
     isActive |-> FALSE]

\* the switch with a default branch that clears isActive
handleResearchDataDefaultClears(prev, delta) ==
    CASE delta.type = "data-research-status" ->
            [prev EXCEPT !.status = Some(delta.data),
                         !.isActive = (delta.data # "complete" /\ delta.data # "error")]
      [] delta.type = "data-research-query-rewritten" ->
            [prev EXCEPT !.rewrittenQuery = Some(delta.data)]
      [] delta.type = "data-research-search-results" ->
            [prev EXCEPT !.searchResults = Some(delta.data)]
      [] delta.type = "data-research-sources" ->
            [prev EXCEPT !.sources = delta.data]
      [] delta.type = "data-research-complete" ->
            [prev EXCEPT !.isActive = FALSE]
      [] OTHER -> [prev EXCEPT !.isActive = FALSE]

\* the switch with a status case that tests for "complete" only
handleResearchDataErrorActive(prev, delta) ==
    CASE delta.type = "data-research-status" ->
            [prev EXCEPT !.status = Some(delta.data),
                         !.isActive = (delta.data # "complete")]
      [] delta.type = "data-research-query-rewritten" ->
            [prev EXCEPT !.rewrittenQuery = Some(delta.data)]
      [] delta.type = "data-research-search-results" ->
            [prev EXCEPT !.searchResults = Some(delta.data)]
      [] delta.type = "data-research-sources" ->
            [prev EXCEPT !.sources = delta.data]
      [] delta.type = "data-research-complete" ->
            [prev EXCEPT !.isActive = FALSE]
      [] OTHER -> prev

\* the switch with a sources case that appends to the previous list
handleResearchDataAppendSources(prev, delta) ==
    CASE delta.type = "data-research-status" ->
            [prev EXCEPT !.status = Some(delta.data),
                         !.isActive = (delta.data # "complete" /\ delta.data # "error")]
      [] delta.type = "data-research-query-rewritten" ->
            [prev EXCEPT !.rewrittenQuery = Some(delta.data)]
      [] delta.type = "data-research-search-results" ->
            [prev EXCEPT !.searchResults = Some(delta.data)]
      [] delta.type = "data-research-sources" ->
            [prev EXCEPT !.sources = prev.sources \o delta.data]
      [] delta.type = "data-research-complete" ->
            [prev EXCEPT !.isActive = FALSE]
      [] OTHER -> prev

\* the switch with a complete case that also writes status
handleResearchDataCompleteSetsStatus(prev, delta) ==
    CASE delta.type = "data-research-status" ->
            [prev EXCEPT !.status = Some(delta.data),
                         !.isActive = (delta.data # "complete" /\ delta.data # "error")]
      [] delta.type = "data-research-query-rewritten" ->
            [prev EXCEPT !.rewrittenQuery = Some(delta.data)]
      [] delta.type = "data-research-search-results" ->
            [prev EXCEPT !.searchResults = Some(delta.data)]
      [] delta.type = "data-research-sources" ->
            [prev EXCEPT !.sources = delta.data]
      [] delta.type = "data-research-complete" ->
            [prev EXCEPT !.status = Some("complete"), !.isActive = FALSE]
      [] OTHER -> prev

\* the switch with a query-rewritten case that also sets isActive
handleResearchDataRewrittenActivates(prev, delta) ==
    CASE delta.type = "data-research-status" ->
            [prev EXCEPT !.status = Some(delta.data),
                         !.isActive = (delta.data # "complete" /\ delta.data # "error")]
      [] delta.type = "data-research-query-rewritten" ->
            [prev EXCEPT !.rewrittenQuery = Some(delta.data), !.isActive = TRUE]
      [] delta.type = "data-research-search-results" ->
            [prev EXCEPT !.searchResults = Some(delta.data)]
      [] delta.type = "data-research-sources" ->
            [prev EXCEPT !.sources = delta.data]
      [] delta.type = "data-research-complete" ->
            [prev EXCEPT !.isActive = FALSE]
      [] OTHER -> prev

\* the switch with a status case that sets isActive whatever the payload
handleResearchDataAlwaysActive(prev, delta) ==
    CASE delta.type = "data-research-status" ->
            [prev EXCEPT !.status = Some(delta.data),
                         !.isActive = TRUE]
      [] delta.type = "data-research-query-rewritten" ->
            [prev EXCEPT !.rewrittenQuery = Some(delta.data)]
      [] delta.type = "data-research-search-results" ->
            [prev EXCEPT !.searchResults = Some(delta.data)]
      [] delta.type = "data-research-sources" ->
            [prev EXCEPT !.sources = delta.data]
      [] delta.type = "data-research-complete" ->
            [prev EXCEPT !.isActive = FALSE]
      [] OTHER -> prev

\* the state setResearch installs for one delta: the switch on delta.type
handleResearchData(prev, delta) ==
    CASE delta.type = "data-research-status" ->
            [prev EXCEPT !.status = Some(delta.data),
                         !.isActive = (delta.data # "complete" /\ delta.data # "error")]
      [] delta.type = "data-research-query-rewritten" ->
            [prev EXCEPT !.rewrittenQuery = Some(delta.data)]
      [] delta.type = "data-research-search-results" ->
            [prev EXCEPT !.searchResults = Some(delta.data)]
      [] delta.type = "data-research-sources" ->
            [prev EXCEPT !.sources = delta.data]
      [] delta.type = "data-research-complete" ->
            [prev EXCEPT !.isActive = FALSE]
      [] OTHER -> prev

\* a reset that keeps the previous sources
resetResearchKeepsSources(prev) == [initialState EXCEPT !.sources = prev.sources]

\* setResearch(initialState)
resetResearch(prev) == initialState

\* the entry the history keeps for a call of resetResearch
ResetMark == [type |-> "resetResearch()", data |-> Null]

\* deltas the reducer is fed
SourceA == [title |-> <<"A">>, url |-> SubSeq(FragA, 5, 17), domain |-> SubSeq(FragA, 13, 17)]
SourceOk == [title |-> <<"o", "k">>, url |-> SubSeq(FragOk, 6, 15), domain |-> SubSeq(FragOk, 13, 15)]

Deltas ==
    {Status(s) : s \in ResearchStatus}
    \cup {QueryRewritten(t) : t \in {"rw-1", "rw-2"}}
    \cup {SearchResults(t) : t \in {FragA, FragOk}}
    \cup {Sources(s) : s \in {<<>>, <<SourceA>>, <<SourceOk, SourceA>>}}
    \cup {Complete, SynthesisStart, TextDelta(1),
          [type |-> "data-unknown", data |-> Null]}

\* ------------------------------------------------------------------------
\* Mounted providers: ResearchProvider calls useResearchState once, so each
\* mounted provider holds one ResearchState of its own
\* ------------------------------------------------------------------------
Invocations == {"invocation-A", "invocation-B"}
Providers == {"provider-A", "provider-B"}

\* the provider under which an invocation's stream is consumed: every
\* invocation has a reducer state instance of its own
ProviderOf(inv) ==
    CASE inv = "invocation-A" -> "provider-A"
      [] inv = "invocation-B" -> "provider-B"

\* a setter that writes one state shared by all providers
setResearchShared(states, p, next) == [q \in DOMAIN states |-> next]

\* the setter useState returns: it replaces the state of its own instance
setResearch(states, p, next) == [states EXCEPT ![p] = next]

\* deltas the invocations deliver
ProviderDeltas ==
    {Status("searching"), Status("complete"), QueryRewritten("rw-1"),
     QueryRewritten("rw-2"), Sources(<<SourceA>>), Complete}

\* ------------------------------------------------------------------------
\* The Reasoning component
\* ------------------------------------------------------------------------
\* the condition of the effect without the hasAutoClosed flag
AutoCloseConditionIgnoresFlag(defaultOpenProp, isStreamingProp, isOpenNow, hasAutoClosedNow) ==
    defaultOpenProp /\ ~isStreamingProp /\ isOpenNow

\* if (defaultOpen && !isStreaming && isOpen && !hasAutoClosed)
AutoCloseCondition(defaultOpenProp, isStreamingProp, isOpenNow, hasAutoClosedNow) ==
    defaultOpenProp /\ ~isStreamingProp /\ isOpenNow /\ ~hasAutoClosedNow

\* values of the open prop
OpenProps == {None, Some(TRUE), Some(FALSE)}

\* ------------------------------------------------------------------------
\* State
\* ------------------------------------------------------------------------
VARIABLES
    pc,             \* position of the POST handler and of the stream
    req,            \* the request
    authed,         \* auth() yields a session with a user
    response,       \* HTTP status returned, 0 while there is none
    channel,        \* chunks enqueued on the UI message stream, in order
    calls,          \* stage calls made so far: [stage, prompt]
    rewrittenQuery, \* execute's local of that name
    searchContent,  \* execute's local of that name
    sources,        \* execute's local of that name
    failedStage,    \* the stage that failed, "none" while none has
    executeResult,  \* "none", "running", "returned" or "threw"
    tokens,         \* text deltas the merged stream has delivered
    saved,          \* calls of saveMessages: the batch and whether it succeeded
    finishResult,   \* onFinish: "none", "ok" or "threw"
    logs,           \* console.error entries
    returns,        \* stage calls that have settled: [stage, ok, text]
    content,        \* extractor run: the input text
    nfrags,         \* extractor run: fragments in content
    extracted,      \* extractor run: the function has been applied
    result,         \* extractor run: the array it returned
    raised,         \* extractor run: the call raised
    research,       \* reducer: the ResearchState held by useState
    applied,        \* reducer: deltas and resets applied so far, in order
    providerState,  \* providers: the ResearchState of each mounted provider
    sent,           \* providers: the deltas each invocation has delivered
    open,           \* Reasoning: the open prop, None when not passed
    defaultOpen,    \* Reasoning: the defaultOpen prop
    isStreaming,    \* Reasoning: the isStreaming prop
    uncontrolled,   \* Reasoning: the state useControllableState keeps itself
    hasAutoClosed,  \* Reasoning: the state of that name
    timer,          \* Reasoning: a timeout of the effect is pending
    fired,          \* Reasoning: times the timeout callback has run
    toggles         \* Reasoning: calls of handleOpenChange so far

pipelineVars == <<pc, req, authed, response, channel, calls, rewrittenQuery,
                  searchContent, sources, failedStage, executeResult, tokens,
                  saved, finishResult, logs, returns>>
extractVars == <<content, nfrags, extracted, result, raised>>
reducerVars == <<research, applied>>
providerVars == <<providerState, sent>>
reasoningVars == <<open, defaultOpen, isStreaming, uncontrolled, hasAutoClosed,
                   timer, fired, toggles>>
vars == <<pipelineVars, extractVars, reducerVars, providerVars, reasoningVars>>

ExtractIdle ==
    /\ content = <<>>
    /\ nfrags = 0
    /\ extracted = FALSE
    /\ result = <<>>
    /\ raised = FALSE

ReducerIdle ==
    /\ research = initialState
    /\ applied = <<>>

ProvidersIdle ==
    /\ providerState = [p \in Providers |-> initialState]
    /\ sent = [inv \in Invocations |-> <<>>]

\* the value of useControllableState: the prop when it is passed
isOpen == IF open.isNull THEN uncontrolled ELSE open.value

\* a Reasoning instance after its first render and the first run of the
\* effect, given its props
ReasoningMounted(openProp, defaultOpenProp, isStreamingProp) ==
    /\ open = openProp
    /\ defaultOpen = defaultOpenProp
    /\ isStreaming = isStreamingProp
    /\ uncontrolled = defaultOpenProp
    /\ hasAutoClosed = FALSE
    /\ timer = AutoCloseCondition(defaultOpenProp, isStreamingProp,
                                  IF openProp.isNull THEN defaultOpenProp
                                  ELSE openProp.value, FALSE)
    /\ fired = 0
    /\ toggles = 0

ReasoningIdle == ReasoningMounted(None, FALSE, FALSE)

PipelineIdle ==
    /\ pc = "start"
    /\ response = 0
    /\ channel = <<>>
    /\ calls = <<>>
    /\ rewrittenQuery = ""
    /\ searchContent = <<>>
    /\ sources = <<>>
    /\ failedStage = "none"
    /\ executeResult = "none"
    /\ tokens = 0
    /\ saved = <<>>
    /\ finishResult = "none"
    /\ logs = <<>>
    /\ returns = <<>>

Init ==
    /\ req \in Requests
    /\ authed \in BOOLEAN
    /\ PipelineIdle
    /\ ExtractIdle
    /\ ReducerIdle
    /\ ProvidersIdle
    /\ ReasoningIdle

\* ------------------------------------------------------------------------
\* POST: validation and authentication
\* ------------------------------------------------------------------------
\* request.json() or researchRequestSchema.parse throws: bad_request:api
BadRequest ==
    /\ pc = "start"
    /\ ~(req.jsonOk /\ researchRequestSchema(req))
    /\ response' = toResponse("bad_request:api")
    /\ pc' = "rejected"
    /\ UNCHANGED <<req, authed, channel, calls, rewrittenQuery, searchContent,
                   sources, failedStage, executeResult, tokens, saved,
                   finishResult, logs, returns, extractVars, reducerVars, providerVars, reasoningVars>>

\* the body parsed; the handler awaits auth()
Validated ==
    /\ pc = "start"
    /\ req.jsonOk /\ researchRequestSchema(req)
    /\ pc' = "auth"
    /\ UNCHANGED <<req, authed, response, channel, calls, rewrittenQuery,
                   searchContent, sources, failedStage, executeResult, tokens,
                   saved, finishResult, logs, returns, extractVars, reducerVars, providerVars, reasoningVars>>

\* a handler that awaits auth() before it parses the body
UnauthorizedFirst ==
    /\ pc \in {"start", "auth"}
    /\ ~authed
    /\ response' = toResponse("unauthorized:chat")
    /\ pc' = "rejected"
    /\ UNCHANGED <<req, authed, channel, calls, rewrittenQuery, searchContent,
                   sources, failedStage, executeResult, tokens, saved,
                   finishResult, logs, returns, extractVars, reducerVars, providerVars, reasoningVars>>

\* no session user: unauthorized:chat
Unauthorized ==
    /\ pc = "auth"
    /\ ~authed
    /\ response' = toResponse("unauthorized:chat")
    /\ pc' = "rejected"
    /\ UNCHANGED <<req, authed, channel, calls, rewrittenQuery, searchContent,
                   sources, failedStage, executeResult, tokens, saved,
                   finishResult, logs, returns, extractVars, reducerVars, providerVars, reasoningVars>>

\* ------------------------------------------------------------------------
\* execute: the orchestrator.  Each action is one run of the handler between
\* two awaits.
\* ------------------------------------------------------------------------
\* an execute that starts the rewrite and the search call together
ExecuteStartParallel ==
    /\ pc = "auth"
    /\ authed
    /\ response' = StreamResponse
    /\ executeResult' = "running"
    /\ channel' = Append(channel, Status("rewriting-query"))
    /\ calls' = calls \o <<[stage |-> "rewrite", prompt |-> RewritePrompt(req.query)],
                           [stage |-> "search", prompt |-> SearchPrompt(req.query.text)]>>
    /\ pc' = "rewriting"
    /\ UNCHANGED <<req, authed, rewrittenQuery, searchContent, sources,
                   failedStage, tokens, saved, finishResult, logs, returns,
                   extractVars, reducerVars, providerVars, reasoningVars>>

\* the stream is created and returned; execute runs up to the await of the
\* rewrite call
ExecuteStart ==
    /\ pc = "auth"
    /\ authed
    /\ response' = StreamResponse
    /\ executeResult' = "running"
    /\ channel' = Append(channel, Status("rewriting-query"))
    /\ calls' = Append(calls, [stage |-> "rewrite", prompt |-> RewritePrompt(req.query)])
    /\ pc' = "rewriting"
    /\ UNCHANGED <<req, authed, rewrittenQuery, searchContent, sources,
                   failedStage, tokens, saved, finishResult, logs, returns, extractVars, reducerVars, providerVars, reasoningVars>>

\* the two terminal writes made in the wrong order
TerminalWritesCompleteFirst == <<Complete, Status("complete")>>

\* the writes after merge: status=complete, then complete
TerminalWrites == <<Status("complete"), Complete>>

\* a catch block that goes on to the terminal status write
CatchThenComplete(stage, chunksBefore) ==
    /\ logs' = Append(logs, "Research pipeline error:")
    /\ channel' = channel \o chunksBefore
                    \o <<Status("error"), Status("complete"), ErrorChunk(onError)>>
    /\ failedStage' = stage
    /\ executeResult' = "threw"
    /\ pc' = "closing"

\* a catch block that rethrows without writing status=error
CatchNoStatus(stage, chunksBefore) ==
    /\ logs' = Append(logs, "Research pipeline error:")
    /\ channel' = channel \o chunksBefore \o <<ErrorChunk(onError)>>
    /\ failedStage' = stage
    /\ executeResult' = "threw"
    /\ pc' = "closing"

\* the catch block of execute, then the transport's handling of the rejected
\* execute promise: console.error, status=error, rethrow, error chunk
Catch(stage, chunksBefore) ==
    /\ logs' = Append(logs, "Research pipeline error:")
    /\ channel' = channel \o chunksBefore
                    \o <<Status("error"), ErrorChunk(onError)>>
    /\ failedStage' = stage
    /\ executeResult' = "threw"
    /\ pc' = "closing"

\* the rewrite call returned: up to the await of the search call
RewriteReturns(text) ==
    /\ pc = "rewriting"
    /\ rewrittenQuery' = text
    /\ channel' = channel \o <<QueryRewritten(text), Status("searching")>>
    /\ calls' = Append(calls, [stage |-> "search", prompt |-> SearchPrompt(text)])
    /\ pc' = "searching"
    /\ returns' = Append(returns, [stage |-> "rewrite", ok |-> TRUE, text |-> text])
    /\ UNCHANGED <<req, authed, response, searchContent, sources, failedStage,
                   executeResult, tokens, saved, finishResult, logs, extractVars, reducerVars, providerVars, reasoningVars>>

\* the rewrite call threw
RewriteFails ==
    /\ pc = "rewriting"
    /\ Catch("rewrite", <<>>)
    /\ returns' = Append(returns, [stage |-> "rewrite", ok |-> FALSE, text |-> Null])
    /\ UNCHANGED <<req, authed, response, calls, rewrittenQuery, searchContent,
                   sources, tokens, saved, finishResult, extractVars, reducerVars, providerVars, reasoningVars>>

\* the search call returned: extraction, the four writes of stages 2 and 3,
\* the streamText call, merge, and the two terminal writes, which follow
\* merge without an await; callOk = FALSE is streamText (or the evaluation
\* of its arguments) throwing
SearchReturns(text, callOk) ==
    /\ pc = "searching"
    /\ LET outcome == extractSourcesFromContent(text)
           srcs == outcome.sources
           searched == Append(returns, [stage |-> "search", ok |-> TRUE, text |-> text])
           chunks == <<SearchResults(text), Sources(srcs),
                       Status("synthesizing"), SynthesisStart>>
       IN /\ searchContent' = text
          /\ IF outcome.raised
             THEN \* an exception of the extractor would land in the catch
                  /\ Catch("extraction", <<>>)
                  /\ returns' = searched
                  /\ UNCHANGED <<sources, calls>>
             ELSE /\ sources' = srcs
                  /\ calls' = Append(calls,
                         [stage |-> "synthesis",
                          prompt |-> SynthesisPrompt(req.query, rewrittenQuery,
                                                     text, srcs)])
                  /\ IF callOk
                     THEN /\ channel' = channel \o chunks \o TerminalWrites
                          /\ returns' = searched
                          /\ executeResult' = "returned"
                          /\ pc' = "merging"
                          /\ UNCHANGED <<failedStage, logs>>
                     ELSE /\ Catch("synthesis-call", chunks)
                          /\ returns' = Append(searched,
                                 [stage |-> "synthesis", ok |-> FALSE, text |-> Null])
    /\ UNCHANGED <<req, authed, response, rewrittenQuery, tokens, saved,
                   finishResult, extractVars, reducerVars, providerVars, reasoningVars>>

\* the search call threw
SearchFails ==
    /\ pc = "searching"
    /\ Catch("search", <<>>)
    /\ returns' = Append(returns, [stage |-> "search", ok |-> FALSE, text |-> Null])
    /\ UNCHANGED <<req, authed, response, calls, rewrittenQuery, searchContent,
                   sources, tokens, saved, finishResult, extractVars, reducerVars, providerVars, reasoningVars>>

\* ------------------------------------------------------------------------
\* The merged synthesis stream, read by the transport after execute returned
\* ------------------------------------------------------------------------
\* merge forwards one text delta
Token ==
    /\ pc = "merging"
    /\ tokens < MaxTokens
    /\ tokens' = tokens + 1
    /\ channel' = Append(channel, TextDelta(tokens + 1))
    /\ UNCHANGED <<pc, req, authed, response, calls, rewrittenQuery,
                   searchContent, sources, failedStage, executeResult, saved,
                   finishResult, logs, returns, extractVars, reducerVars, providerVars, reasoningVars>>

\* the merged stream is read to its end
SynthesisEnds ==
    /\ pc = "merging"
    /\ pc' = "closing"
    /\ returns' = Append(returns, [stage |-> "synthesis", ok |-> TRUE, text |-> Null])
    /\ UNCHANGED <<req, authed, response, channel, calls, rewrittenQuery,
                   searchContent, sources, failedStage, executeResult, tokens,
                   saved, finishResult, logs, extractVars, reducerVars, providerVars, reasoningVars>>

\* texts an error chunk of the merged stream may carry: the stream made by
\* toUIMessageStream({ sendReasoning: false }) is given no onError
StreamErrorTexts == {onError, "provider error detail"}

\* the synthesis stream fails, at its start or after some deltas; execute
\* has returned, so its catch block is not on the stack
SynthesisFails(errorText) ==
    /\ pc = "merging"
    /\ failedStage' = "synthesis-stream"
    /\ channel' = Append(channel, ErrorChunk(errorText))
    /\ pc' = "closing"
    /\ returns' = Append(returns, [stage |-> "synthesis", ok |-> FALSE, text |-> Null])
    /\ UNCHANGED <<req, authed, response, calls, rewrittenQuery, searchContent,
                   sources, executeResult, tokens, saved, finishResult, logs,
                   extractVars, reducerVars, providerVars, reasoningVars>>

\* ------------------------------------------------------------------------
\* onFinish, called by the transport when the stream has closed
\* ------------------------------------------------------------------------
IsPart(chunk) == chunk.type # "error"

\* saveOk = FALSE is saveMessages rejecting; onFinish awaits it without a
\* try, so the rejection leaves onFinish
Finish(saveOk) ==
    /\ pc = "closing"
    /\ LET finishedMessages == FinishedMessages(SelectSeq(channel, IsPart))
       IN IF Len(finishedMessages) > 0
          THEN /\ saved' = Append(saved,
                       [messages |-> ToDbMessages(finishedMessages, req.chatId),
                        ok |-> saveOk])
               /\ finishResult' = IF saveOk THEN "ok" ELSE "threw"
          ELSE /\ saved' = saved
               /\ finishResult' = "ok"
    /\ pc' = "done"
    /\ UNCHANGED <<req, authed, response, channel, calls, rewrittenQuery,
                   searchContent, sources, failedStage, executeResult, tokens,
                   logs, returns, extractVars, reducerVars, providerVars, reasoningVars>>

\* the client disconnects or maxDuration elapses while the run is in flight
Abandon ==
    /\ pc \in {"rewriting", "searching", "merging"}
    /\ pc' = "abandoned"
    /\ UNCHANGED <<req, authed, response, channel, calls, rewrittenQuery,
                   searchContent, sources, failedStage, executeResult, tokens,
                   saved, finishResult, logs, returns, extractVars, reducerVars, providerVars, reasoningVars>>

Next ==
    \/ BadRequest
    \/ Validated
    \/ Unauthorized
    \/ ExecuteStart
    \/ \E text \in RewriteTexts : RewriteReturns(text)
    \/ RewriteFails
    \/ \E text \in SearchTexts, callOk \in BOOLEAN : SearchReturns(text, callOk)
    \/ SearchFails
    \/ Token
    \/ SynthesisEnds
    \/ \E errorText \in StreamErrorTexts : SynthesisFails(errorText)
    \/ \E saveOk \in BOOLEAN : Finish(saveOk)
    \/ Abandon

Spec == Init /\ [][Next]_vars

\* ------------------------------------------------------------------------
\* The extractor on its own: every concatenation of at most MaxFrags
\* fragments is built, and the function applied to it
\* ------------------------------------------------------------------------
InitExtract ==
    /\ req = [jsonOk |-> FALSE, id |-> "not-a-uuid", chatId |-> "not-a-uuid",
              query |-> [text |-> "", length |-> 0]]
    /\ authed = FALSE
    /\ PipelineIdle
    /\ ExtractIdle
    /\ ReducerIdle
    /\ ProvidersIdle
    /\ ReasoningIdle

AppendFragment(f) ==
    /\ ~extracted
    /\ nfrags < MaxFrags
    /\ content' = content \o f
    /\ nfrags' = nfrags + 1
    /\ UNCHANGED <<extracted, result, raised, pipelineVars, reducerVars, providerVars, reasoningVars>>

Extract ==
    /\ ~extracted
    /\ LET outcome == extractSourcesFromContent(content)
       IN /\ result' = outcome.sources
          /\ raised' = outcome.raised
    /\ extracted' = TRUE
    /\ UNCHANGED <<content, nfrags, pipelineVars, reducerVars, providerVars, reasoningVars>>

NextExtract ==
    \/ \E f \in Fragments : AppendFragment(f)
    \/ Extract

SpecExtract == InitExtract /\ [][NextExtract]_vars

\* ------------------------------------------------------------------------
\* The reducer on its own: any sequence of at most MaxEvents deltas and
\* resets
\* ------------------------------------------------------------------------
InitReducer ==
    /\ req = [jsonOk |-> FALSE, id |-> "not-a-uuid", chatId |-> "not-a-uuid",
              query |-> [text |-> "", length |-> 0]]
    /\ authed = FALSE
    /\ PipelineIdle
    /\ ExtractIdle
    /\ ReducerIdle
    /\ ProvidersIdle
    /\ ReasoningIdle

HandleResearchData(delta) ==
    /\ Len(applied) < MaxEvents
    /\ research' = handleResearchData(research, delta)
    /\ applied' = Append(applied, delta)
    /\ UNCHANGED <<pipelineVars, extractVars, providerVars, reasoningVars>>

ResetResearch ==
    /\ Len(applied) < MaxEvents
    /\ research' = resetResearch(research)
    /\ applied' = Append(applied, ResetMark)
    /\ UNCHANGED <<pipelineVars, extractVars, providerVars, reasoningVars>>

NextReducer ==
    \/ \E delta \in Deltas : HandleResearchData(delta)
    \/ ResetResearch

SpecReducer == InitReducer /\ [][NextReducer]_vars

\* ------------------------------------------------------------------------
\* Two invocations running at the same time, each under its provider
\* ------------------------------------------------------------------------
InitProviders ==
    /\ req = [jsonOk |-> FALSE, id |-> "not-a-uuid", chatId |-> "not-a-uuid",
              query |-> [text |-> "", length |-> 0]]
    /\ authed = FALSE
    /\ PipelineIdle
    /\ ExtractIdle
    /\ ReducerIdle
    /\ ProvidersIdle
    /\ ReasoningIdle

\* one delta of invocation inv arrives and is handed to handleResearchData
Deliver(inv, delta) ==
    /\ Len(sent["invocation-A"]) + Len(sent["invocation-B"]) < MaxEvents
    /\ LET p == ProviderOf(inv)
       IN providerState' =
              setResearch(providerState, p, handleResearchData(providerState[p], delta))
    /\ sent' = [sent EXCEPT ![inv] = Append(@, delta)]
    /\ UNCHANGED <<pipelineVars, extractVars, reducerVars, reasoningVars>>

NextProviders ==
    \E inv \in Invocations, delta \in ProviderDeltas : Deliver(inv, delta)

SpecProviders == InitProviders /\ [][NextProviders]_vars

\* ------------------------------------------------------------------------
\* One Reasoning instance.  Each action is an event followed by the render
\* and the effect it causes: the cleanup clears a pending timeout, and the
\* effect sets a new one when its condition holds.
\* ------------------------------------------------------------------------
InitReasoning ==
    /\ req = [jsonOk |-> FALSE, id |-> "not-a-uuid", chatId |-> "not-a-uuid",
              query |-> [text |-> "", length |-> 0]]
    /\ authed = FALSE
    /\ PipelineIdle
    /\ ExtractIdle
    /\ ReducerIdle
    /\ ProvidersIdle
    /\ \E o \in OpenProps, d \in BOOLEAN, s \in BOOLEAN : ReasoningMounted(o, d, s)

\* the effect after a render
Effect == timer' = AutoCloseCondition(defaultOpen', isStreaming', isOpen', hasAutoClosed')

\* the parent passes another isStreaming
SetStreaming(s) ==
    /\ s # isStreaming
    /\ isStreaming' = s
    /\ UNCHANGED <<open, defaultOpen, uncontrolled, hasAutoClosed, fired, toggles>>
    /\ Effect
    /\ UNCHANGED <<pipelineVars, extractVars, reducerVars, providerVars>>

\* the parent passes another defaultOpen
SetDefaultOpen(d) ==
    /\ d # defaultOpen
    /\ defaultOpen' = d
    /\ UNCHANGED <<open, isStreaming, uncontrolled, hasAutoClosed, fired, toggles>>
    /\ Effect
    /\ UNCHANGED <<pipelineVars, extractVars, reducerVars, providerVars>>

\* the parent of a controlled instance passes another open
SetOpenProp(o) ==
    /\ ~open.isNull
    /\ Some(o) # open
    /\ open' = Some(o)
    /\ UNCHANGED <<defaultOpen, isStreaming, uncontrolled, hasAutoClosed, fired, toggles>>
    /\ Effect
    /\ UNCHANGED <<pipelineVars, extractVars, reducerVars, providerVars>>

\* setIsOpen(value): the own state when open is not passed; otherwise only
\* onOpenChange is called and the value stays the prop
setIsOpen(value) ==
    uncontrolled' = IF open.isNull THEN value ELSE uncontrolled

\* the user toggles the Collapsible: handleOpenChange(!isOpen)
handleOpenChange ==
    /\ toggles < MaxToggles
    /\ toggles' = toggles + 1
    /\ setIsOpen(~isOpen)
    /\ UNCHANGED <<open, defaultOpen, isStreaming, hasAutoClosed, fired>>
    /\ Effect
    /\ UNCHANGED <<pipelineVars, extractVars, reducerVars, providerVars>>

\* AUTO_CLOSE_DELAY has elapsed: setIsOpen(false); setHasAutoClosed(true)
TimerFires ==
    /\ timer
    /\ setIsOpen(FALSE)
    /\ hasAutoClosed' = TRUE
    /\ fired' = fired + 1
    /\ UNCHANGED <<open, defaultOpen, isStreaming, toggles>>
    /\ Effect
    /\ UNCHANGED <<pipelineVars, extractVars, reducerVars, providerVars>>

NextReasoning ==
    \/ \E s \in BOOLEAN : SetStreaming(s)
    \/ \E d \in BOOLEAN : SetDefaultOpen(d)
    \/ \E o \in BOOLEAN : SetOpenProp(o)
    \/ handleOpenChange
    \/ TimerFires

SpecReasoning == InitReasoning /\ [][NextReasoning]_vars

\* ------------------------------------------------------------------------
\* Vocabulary of the properties
\* ------------------------------------------------------------------------
\* what a chunk is, without its payload: status chunks keep their value
Kind(chunk) ==
    IF chunk.type = StatusType THEN <<"status", chunk.data>> ELSE <<chunk.type>>

Kinds(chunks) == [k \in 1..Len(chunks) |-> Kind(chunks[k])]

IsToken(chunk) == chunk.type = "text-delta"
IsDiscrete(chunk) == chunk.type \notin {"text-delta", "error"}

TokenIdx == {k \in 1..Len(channel) : IsToken(channel[k])}
KindIdx(kind) == {k \in 1..Len(channel) : Kind(channel[k]) = kind}

Min(S) == CHOOSE x \in S : \A y \in S : x <= y
Max(S) == CHOOSE x \in S : \A y \in S : x >= y

\* the stream has closed
StreamFinished == pc \in {"closing", "done"}

\* all three stage calls succeeded and the stream was read to its end
RunSucceeded == StreamFinished /\ failedStage = "none"

\* a stage call failed
RunFailed == failedStage # "none"

StagesBefore(stage) ==
    CASE stage = "rewrite" -> {"rewrite"}
      [] stage = "search" -> {"rewrite", "search"}
      [] OTHER -> {"rewrite", "search", "synthesis"}

ExpectedPrefix ==
    << <<"status", "rewriting-query">>,
       <<"data-research-query-rewritten">>,
       <<"status", "searching">>,
       <<"data-research-search-results">>,
       <<"data-research-sources">>,
       <<"status", "synthesizing">>,
       <<"data-research-synthesis-start">> >>

\* ------------------------------------------------------------------------
\* Properties of the orchestrator
\* ------------------------------------------------------------------------

\* C1: on a successful run the discrete events written before the first
\* synthesis token are exactly status(rewriting-query), query-rewritten,
\* status(searching), search-results, sources, status(synthesizing),
\* synthesis-start, in this order.
C1_EventsBeforeFirstToken ==
    (RunSucceeded /\ TokenIdx # {}) =>
        Kinds(SelectSeq(SubSeq(channel, 1, Min(TokenIdx) - 1), IsDiscrete))
            = ExpectedPrefix

\* C2: on a successful run status=complete and complete are in the channel
\* only after the last token, and no discrete event lies between
\* synthesis-start and the last token.
C2_TerminalPairAfterLastToken ==
    (RunSucceeded /\ TokenIdx # {}) =>
        /\ \A k \in KindIdx(<<"status", "complete">>) : k > Max(TokenIdx)
        /\ \A k \in KindIdx(<<"data-research-complete">>) : k > Max(TokenIdx)
        /\ \A s \in KindIdx(<<"data-research-synthesis-start">>) :
              \A k \in (s + 1)..(Max(TokenIdx) - 1) : ~IsDiscrete(channel[k])

\* C3: when a stage call fails (rewrite, search, or the synthesis stream,
\* also partway through its tokens) the orchestrator has emitted
\* status=error, the error has left execute towards the transport, and no
\* later stage was called.
C3_FailureEmitsErrorAndAborts ==
    (RunFailed /\ StreamFinished) =>
        /\ KindIdx(<<"status", "error">>) # {}
        /\ executeResult = "threw"
        /\ \A k \in 1..Len(calls) : calls[k].stage \in StagesBefore(failedStage)

\* C4: a run in which a stage fails emits neither complete nor
\* status=complete.
C4_FailedRunHasNoComplete ==
    RunFailed =>
        /\ KindIdx(<<"data-research-complete">>) = {}
        /\ KindIdx(<<"status", "complete">>) = {}

\* C5: saveMessages is invoked only for a run whose three stages succeeded
\* and whose stream finished; never for a failed or abandoned run.
C5_SaveOnlyAfterSuccess ==
    saved # <<>> => (RunSucceeded /\ pc # "abandoned")

\* C6: on a successful run saveMessages is invoked exactly once, after the
\* stream has finished, with one batch holding every message the run
\* produced, each carrying the chatId of the request.
C6_OneBatchWithChatId ==
    /\ saved # <<>> => StreamFinished
    /\ (pc = "done" /\ failedStage = "none") =>
          /\ Len(saved) = 1
          /\ LET produced == FinishedMessages(SelectSeq(channel, IsPart))
                 batch == saved[1].messages
             IN /\ Len(batch) = Len(produced)
                /\ \A k \in 1..Len(batch) :
                      /\ batch[k].id = produced[k].id
                      /\ batch[k].role = produced[k].role
                      /\ batch[k].parts = produced[k].parts
                      /\ batch[k].chatId = req.chatId

\* a successful run with tokens has finished and saved its batch
C6_Witness ==
    /\ pc = "done"
    /\ failedStage = "none"
    /\ tokens = MaxTokens
    /\ Len(saved) = 1
    /\ req.chatId # req.id

\* C7: when saveMessages fails after a successful run the client gets no
\* error, the failure is written to the server log, and it does not leave
\* the completion handler.
C7_SaveFailureContained ==
    (pc = "done" /\ failedStage = "none" /\ \E k \in 1..Len(saved) : ~saved[k].ok) =>
        /\ finishResult = "ok"
        /\ logs # <<>>
        /\ \A k \in 1..Len(channel) : channel[k].type # "error"

\* the request is one the route must reject for its body
Rejectable(r) ==
    \/ ~r.jsonOk
    \/ r.id = "not-a-uuid"
    \/ r.chatId = "not-a-uuid"
    \/ r.query.length < 1
    \/ r.query.length > 2000

\* C8: a body that fails validation gets the 400 response, an
\* unauthenticated caller the 401 response, and in both cases no stage is
\* invoked, no event is emitted and saveMessages is not called.
C8_RejectedNeverRuns ==
    /\ (Rejectable(req) \/ ~authed) =>
          (calls = <<>> /\ channel = <<>> /\ saved = <<>>)
    /\ (Rejectable(req) /\ pc # "start") =>
          (pc = "rejected" /\ response = 400)
    /\ (~Rejectable(req) /\ ~authed /\ pc \notin {"start", "auth"}) =>
          (pc = "rejected" /\ response = 401)

\* an authenticated caller's over-long query has been rejected
C8_Witness ==
    /\ pc = "rejected"
    /\ response = 400
    /\ authed
    /\ req.jsonOk
    /\ req.query.length = 2001
    /\ req.id # "not-a-uuid"
    /\ req.chatId # "not-a-uuid"

\* ------------------------------------------------------------------------
\* Properties of extractSourcesFromContent
\* ------------------------------------------------------------------------
\* index of the first match of the regular expression that carries url
FirstMatchIdx(matches, url) ==
    Min({k \in 1..Len(matches) : matches[k].url = url})

\* C9: the result holds no two records with the same url; a record carries
\* the title of the first match of its url; records are in the order in
\* which their urls first match.
C9_DedupFirstWins ==
    extracted =>
        LET matches == MatchAll(content)
        IN /\ \A i, j \in 1..Len(result) :
                 i # j => result[i].url # result[j].url
           /\ \A i \in 1..Len(result) :
                 /\ \E k \in 1..Len(matches) : matches[k].url = result[i].url
                 /\ matches[FirstMatchIdx(matches, result[i].url)].title
                        = result[i].title
           /\ \A i, j \in 1..Len(result) :
                 i < j => FirstMatchIdx(matches, result[i].url)
                            < FirstMatchIdx(matches, result[j].url)

\* a url was matched twice under different titles next to another url
C9_Witness ==
    /\ extracted
    /\ Len(result) >= 2
    /\ LET matches == MatchAll(content)
       IN \E i, j \in 1..Len(matches) :
             /\ i < j
             /\ matches[i].url = matches[j].url
             /\ matches[i].title # matches[j].title

\* text occurs in s as a contiguous piece
Occurs(s, text) == \E p \in 1..Len(s) : StartsWithAt(s, p, text)

HttpPrefixes ==
    { <<"h", "t", "t", "p", ":", "/", "/">>,
      <<"h", "t", "t", "p", "s", ":", "/", "/">> }

\* d is the hostname of url: the url is a prefix http:// or https://, then a
\* non-empty host without delimiters that is d up to letter case, then the
\* end of the url or a delimiter
IsHostnameOf(d, url) ==
    \E prefix \in HttpPrefixes :
        /\ StartsWithAt(url, 1, prefix)
        /\ Len(d) >= 1
        /\ Len(prefix) + Len(d) <= Len(url)
        /\ LowerSeq(SubSeq(url, Len(prefix) + 1, Len(prefix) + Len(d))) = d
        /\ \A k \in 1..Len(d) : d[k] \notin {"/", "?", "#", ":", "@", " "}
        /\ \/ Len(prefix) + Len(d) = Len(url)
           \/ url[Len(prefix) + Len(d) + 1] \in {"/", "?", "#", ":"}

\* C10: every record comes from a [title](url) piece of the text whose url
\* begins with http:// or https://; a text without such a piece yields the
\* empty sequence; every record's domain is the hostname of its url.
C10_OnlyHttpLinksWithHostname ==
    extracted =>
        /\ \A i \in 1..Len(result) :
              /\ \E prefix \in HttpPrefixes : StartsWithAt(result[i].url, 1, prefix)
              /\ Len(result[i].title) >= 1
              /\ Occurs(content, <<"[">> \o result[i].title \o <<"]", "(">>
                                   \o result[i].url \o <<")">>)
              /\ IsHostnameOf(result[i].domain, result[i].url)
        /\ (~\E prefix \in HttpPrefixes : Occurs(content, <<"]", "(">> \o prefix))
              => result = <<>>
        /\ content = <<>> => result = <<>>

\* a text with a javascript: link and a link to an upper-case host gave the
\* record of the second only, its domain in lower case
C10_Witness ==
    /\ extracted
    /\ Occurs(content, FragJs)
    /\ Len(result) = 1
    /\ result[1].url = <<"h", "t", "t", "p", ":", "/", "/", "A", ".", "B", "/">>
    /\ result[1].domain = <<"a", ".", "b">>

\* C11: the call never raises; a matched url that fails to parse is left
\* out on its own, and every match whose url parses is in the result.
C11_NeverRaisesSkipsInvalid ==
    extracted =>
        LET matches == MatchAll(content)
        IN /\ ~raised
           /\ \A k \in 1..Len(matches) :
                 IF ParseUrl(matches[k].url).ok
                 THEN \E i \in 1..Len(result) : result[i].url = matches[k].url
                 ELSE \A i \in 1..Len(result) : result[i].url # matches[k].url

\* a match with an unparsable url came before a match with a valid one,
\* and the valid one is in the result
C11_Witness ==
    /\ extracted
    /\ ~raised
    /\ LET matches == MatchAll(content)
       IN \E j, k \in 1..Len(matches) :
             /\ j < k
             /\ ~ParseUrl(matches[j].url).ok
             /\ ParseUrl(matches[k].url).ok
             /\ \E i \in 1..Len(result) : result[i].url = matches[k].url

\* ------------------------------------------------------------------------
\* Properties of the client reducer
\* ------------------------------------------------------------------------
IsReset(entry) == entry.type = ResetMark.type

RecognizedTypes ==
    {"data-research-status", "data-research-query-rewritten",
     "data-research-search-results", "data-research-sources",
     "data-research-complete"}

\* index of the last reset in the history, 0 when there is none
LastResetIdx(history) ==
    IF \E k \in 1..Len(history) : IsReset(history[k])
    THEN Max({k \in 1..Len(history) : IsReset(history[k])})
    ELSE 0

\* the deltas applied since the last reset
SinceReset(history) == SubSeq(history, LastResetIdx(history) + 1, Len(history))

RECURSIVE FoldDeltas(_, _)
\* the state after feeding the deltas, in order, to a reducer in state s
FoldDeltas(s, deltas) ==
    IF deltas = <<>> THEN s
    ELSE FoldDeltas(handleResearchData(s, Head(deltas)), Tail(deltas))

\* C12: after any sequence of events resetResearch() gives exactly the
\* initial state, so the state reached by the events applied after a reset
\* is the one they give from the initial state, whatever came before.
C12_ResetRestoresInitial ==
    /\ (applied # <<>> /\ IsReset(applied[Len(applied)])) => research = initialState
    /\ LastResetIdx(applied) > 0 =>
          research = FoldDeltas(initialState, SinceReset(applied))

\* a reset was applied to a state that held sources, and a delta after it
C12_Witness ==
    /\ Len(applied) = 3
    /\ applied[1].type = "data-research-sources"
    /\ applied[1].data # <<>>
    /\ IsReset(applied[2])
    /\ applied[3].type = "data-research-status"
    /\ research.sources = <<>>

\* C13: a delta whose type is none of the five recognized types leaves
\* status, rewrittenQuery, searchResults, sources and isActive unchanged.
C13_UnrecognizedIsNoOp ==
    [][ (/\ applied' # applied
         /\ ~IsReset(applied'[Len(applied')])
         /\ applied'[Len(applied')].type \notin RecognizedTypes)
        => research' = research ]_vars

\* an unrecognized delta was applied to an active state with a query
C13_Witness ==
    /\ Len(applied) = 3
    /\ applied[3].type \notin RecognizedTypes
    /\ ~IsReset(applied[3])
    /\ research.isActive
    /\ ~research.rewrittenQuery.isNull

\* C14 as stated: isActive is true exactly when a status event has been
\* applied and the current status is neither complete nor error.
C14_ActiveIffStatusNotTerminal ==
    research.isActive <=>
        (~research.status.isNull /\ research.status.value \notin {"complete", "error"})

StatusIdx(deltas) ==
    {k \in 1..Len(deltas) : deltas[k].type = "data-research-status"}

\* C14 amended: isActive is true exactly when, since the last reset, a
\* status event has been applied, the value of the last one is neither
\* complete nor error, and no complete event was applied after it.
C14_ActiveIffStatusNotTerminalNorCompleted ==
    LET deltas == SinceReset(applied)
    IN research.isActive <=>
          /\ StatusIdx(deltas) # {}
          /\ deltas[Max(StatusIdx(deltas))].data \notin {"complete", "error"}
          /\ \A k \in (Max(StatusIdx(deltas)) + 1)..Len(deltas) :
                deltas[k].type # "data-research-complete"

\* the complete event was applied while the status was searching
C14_Witness ==
    /\ Len(applied) = 2
    /\ applied[1] = Status("searching")
    /\ applied[2].type = "data-research-complete"
    /\ ~research.isActive
    /\ research.status = Some("searching")

\* C20: query-rewritten, search-results and sources each replace their own
\* field by the payload and leave every other field as it was; a sources
\* delta replaces the previous list as a whole.
C20_PayloadReplacesOwnField ==
    [][ (applied' # applied /\ ~IsReset(applied'[Len(applied')])) =>
          LET delta == applied'[Len(applied')]
          IN /\ delta.type = "data-research-query-rewritten" =>
                   research' = [research EXCEPT !.rewrittenQuery = Some(delta.data)]
             /\ delta.type = "data-research-search-results" =>
                   research' = [research EXCEPT !.searchResults = Some(delta.data)]
             /\ delta.type = "data-research-sources" =>
                   /\ research'.sources = delta.data
                   /\ research' = [research EXCEPT !.sources = delta.data] ]_vars

\* a sources delta was applied to a state that held another, non-empty list
C20_Witness ==
    /\ Len(applied) = 3
    /\ applied[1] = Status("searching")
    /\ applied[2] = Sources(<<SourceOk, SourceA>>)
    /\ applied[3] = Sources(<<SourceA>>)
    /\ research.sources = <<SourceA>>
    /\ research.isActive

\* ------------------------------------------------------------------------
\* Properties of the orchestrator's events as the client sees them
\* ------------------------------------------------------------------------
IsStatus(chunk) == chunk.type = StatusType

\* the values of the status events of the channel, in order
StatusValues(chunks) ==
    LET st == SelectSeq(chunks, IsStatus)
    IN [k \in 1..Len(st) |-> st[k].data]

PhaseOrder == <<"rewriting-query", "searching", "synthesizing", "complete">>

\* C15: the status events of a run follow rewriting-query, searching,
\* synthesizing, complete in that order, error being possible after any
\* phase; no value is emitted twice and none after complete or error.
C15_StatusOrder ==
    LET st == StatusValues(channel)
    IN /\ Len(st) <= Len(PhaseOrder)
       /\ \A i \in 1..Len(st) : st[i] # "error" => st[i] = PhaseOrder[i]
       /\ \A i, j \in 1..Len(st) : i # j => st[i] # st[j]
       /\ \A i \in 1..Len(st) : st[i] \in {"complete", "error"} => i = Len(st)

\* the run went through three phases and then failed
C15_Witness ==
    /\ StatusValues(channel)
          = <<"rewriting-query", "searching", "synthesizing", "error">>
    /\ pc = "done"

\* the state a reducer is in after the chunks of the channel, in order
ClientState == FoldDeltas(initialState, channel)

\* C16 as stated: after a run whose three stages succeed the reducer holds
\* status complete, isActive false, and non-empty rewrittenQuery and
\* searchResults.
C16_FinalStateNonEmpty ==
    (pc = "done" /\ failedStage = "none") =>
        /\ ClientState.status = Some("complete")
        /\ ~ClientState.isActive
        /\ ~ClientState.rewrittenQuery.isNull
        /\ ClientState.rewrittenQuery.value # ""
        /\ ~ClientState.searchResults.isNull
        /\ ClientState.searchResults.value # <<>>

\* C16 amended: after a run whose three stages succeed the reducer holds
\* status complete, isActive false, the text the rewrite stage returned as
\* rewrittenQuery and the text the search stage returned as searchResults.
C16_FinalStateHoldsStageTexts ==
    (pc = "done" /\ failedStage = "none") =>
        /\ ClientState.status = Some("complete")
        /\ ~ClientState.isActive
        /\ ClientState.rewrittenQuery = Some(rewrittenQuery)
        /\ ClientState.searchResults = Some(searchContent)
        /\ ClientState.sources = sources

\* a successful run with non-empty texts, sources and tokens has finished
C16_Witness ==
    /\ pc = "done"
    /\ failedStage = "none"
    /\ tokens = MaxTokens
    /\ rewrittenQuery # ""
    /\ Len(sources) = 2
    /\ ClientState.status = Some("complete")

IsError(chunk) == chunk.type = "error"

\* C18: every error text delivered to the client is the one fixed generic
\* message, whatever stage failed and whatever the underlying error.
C18_OneGenericErrorText ==
    \A k \in 1..Len(channel) : IsError(channel[k]) => channel[k].data = onError

\* the chunks of the channel that are not the transport's error chunk
ResearchEvents == SelectSeq(channel, LAMBDA chunk : ~IsError(chunk))

\* C19: when the search call fails the events are exactly
\* status(rewriting-query), query-rewritten, status(searching),
\* status(error); when the rewrite call fails they are exactly
\* status(rewriting-query), status(error).
C19_EventsOfEarlyFailure ==
    /\ failedStage = "search" =>
          Kinds(ResearchEvents) = << <<"status", "rewriting-query">>,
                                     <<"data-research-query-rewritten">>,
                                     <<"status", "searching">>,
                                     <<"status", "error">> >>
    /\ failedStage = "rewrite" =>
          Kinds(ResearchEvents) = << <<"status", "rewriting-query">>,
                                     <<"status", "error">> >>

\* a run whose search call failed has closed
C19_Witness ==
    /\ failedStage = "search"
    /\ pc = "done"
    /\ rewrittenQuery # ""
    /\ Len(channel) = 5

Terminal == {Some("complete"), Some("error")}

\* C21: a status event sets status to its payload and isActive to (payload
\* is neither complete nor error); a complete event sets isActive to false
\* and leaves status unchanged; both leave rewrittenQuery, searchResults and
\* sources unchanged.
C21_StatusAndCompleteEffects ==
    [][ (applied' # applied /\ ~IsReset(applied'[Len(applied')])) =>
          LET delta == applied'[Len(applied')]
              kept == /\ research'.rewrittenQuery = research.rewrittenQuery
                      /\ research'.searchResults = research.searchResults
                      /\ research'.sources = research.sources
          IN /\ delta.type = "data-research-status" =>
                   /\ research'.status = Some(delta.data)
                   /\ research'.isActive = (delta.data \notin {"complete", "error"})
                   /\ kept
             /\ delta.type = "data-research-complete" =>
                   /\ research'.isActive = FALSE
                   /\ research'.status = research.status
                   /\ kept ]_vars

\* a complete event was applied to an active state holding a rewritten query
C21_Witness ==
    /\ Len(applied) = 3
    /\ applied[1] = QueryRewritten("rw-1")
    /\ applied[2] = Status("synthesizing")
    /\ applied[3] = Complete
    /\ research.status = Some("synthesizing")
    /\ research.rewrittenQuery = Some("rw-1")
    /\ ~research.isActive

\* C24 as stated: once status is complete or error no later event replaces
\* it and isActive stays false; only resetResearch() leaves the terminal
\* phase.
C24_TerminalUntilReset ==
    [][ (/\ applied' # applied
         /\ research.status \in Terminal
         /\ ~IsReset(applied'[Len(applied')]))
        => /\ research'.status = research.status
           /\ ~research'.isActive ]_vars

\* C24 amended: while status is complete or error isActive is false, and
\* every event other than a status event keeps both; a status event replaces
\* status by its payload, and resetResearch() gives the initial state.
C24_TerminalUntilStatusOrReset ==
    [][ applied' # applied =>
          /\ research'.status \in Terminal => ~research'.isActive
          /\ research.status \in Terminal =>
                LET delta == applied'[Len(applied')]
                IN CASE IsReset(delta) -> research' = initialState
                     [] delta.type = "data-research-status" ->
                            research'.status = Some(delta.data)
                     [] OTHER -> /\ research'.status = research.status
                                 /\ ~research'.isActive ]_vars

\* after status=error a query-rewritten event and a complete event were
\* applied, and the status is still error
C24_Witness ==
    /\ Len(applied) = 3
    /\ applied[1] = Status("error")
    /\ applied[2].type = "data-research-query-rewritten"
    /\ applied[3] = Complete
    /\ research.status = Some("error")
    /\ ~research.isActive

\* C25: in every state reached by reducer events and resets, isActive
\* implies that status is rewriting-query, searching or synthesizing.
C25_ActiveImpliesRunningStatus ==
    research.isActive =>
        /\ ~research.status.isNull
        /\ research.status.value \in {"rewriting-query", "searching", "synthesizing"}

\* the state is active again after a terminal status and a reset
C25_Witness ==
    /\ Len(applied) = 3
    /\ applied[1] = Status("error")
    /\ IsReset(applied[2])
    /\ applied[3] = Status("rewriting-query")
    /\ research.isActive

\* ------------------------------------------------------------------------
\* Properties of the stage calls
\* ------------------------------------------------------------------------
StageOrder == <<"rewrite", "search", "synthesis">>

\* the stage has settled, with a result (ok) or with a failure
Settled(stage, ok) ==
    \E j \in 1..Len(returns) : returns[j].stage = stage /\ returns[j].ok = ok

\* the text the stage returned
ReturnedText(stage) ==
    returns[CHOOSE j \in 1..Len(returns) :
                returns[j].stage = stage /\ returns[j].ok].text

\* the calls that were made and have not settled
InFlight ==
    {k \in 1..Len(calls) :
        ~Settled(calls[k].stage, TRUE) /\ ~Settled(calls[k].stage, FALSE)}

\* C22: the stages are invoked in the order rewrite, search, synthesis, each
\* at most once; a stage is invoked only when the stage before it has
\* returned its result, and at most one stage call is in flight.
C22_StagesSequentialOnce ==
    /\ Len(calls) <= Len(StageOrder)
    /\ \A k \in 1..Len(calls) : calls[k].stage = StageOrder[k]
    /\ \A k \in 2..Len(calls) : Settled(StageOrder[k - 1], TRUE)
    /\ \A j \in 1..Len(returns) :
          ~returns[j].ok => calls[Len(calls)].stage = returns[j].stage
    /\ Cardinality(InFlight) <= 1

\* the third stage is in flight after the first two returned
C22_Witness ==
    /\ Len(calls) = 3
    /\ InFlight = {3}
    /\ Len(returns) = 2
    /\ tokens = 1
    /\ pc = "merging"

\* C23: the query-rewritten payload is the text stage 1 returned; the
\* stage-2 prompt carries that text; the search-results payload is the text
\* stage 2 returned; the sources payload is the extractor applied to that
\* text; the stage-3 prompt carries the original query, the rewritten query,
\* the stage-2 text and those sources.
C23_DataFlowsUnchanged ==
    /\ \A k \in 1..Len(channel) :
          /\ channel[k].type = "data-research-query-rewritten" =>
                (Settled("rewrite", TRUE) /\ channel[k].data = ReturnedText("rewrite"))
          /\ channel[k].type = "data-research-search-results" =>
                (Settled("search", TRUE) /\ channel[k].data = ReturnedText("search"))
          /\ channel[k].type = "data-research-sources" =>
                /\ Settled("search", TRUE)
                /\ channel[k].data
                      = extractSourcesFromContent(ReturnedText("search")).sources
    /\ Len(calls) >= 2 =>
          /\ Len(calls[2].prompt) = 2
          /\ calls[2].prompt[2] = ReturnedText("rewrite")
    /\ Len(calls) >= 3 =>
          LET srcs == extractSourcesFromContent(ReturnedText("search")).sources
          IN /\ Len(calls[3].prompt) = 5
             /\ calls[3].prompt[2] = req.query.text
             /\ calls[3].prompt[3] = ReturnedText("rewrite")
             /\ calls[3].prompt[4] = ReturnedText("search")
             /\ calls[3].prompt[5]
                   = [k \in 1..Len(srcs) |-> <<srcs[k].title, srcs[k].url>>]

\* the synthesis call was made with a rewritten query and two sources
C23_Witness ==
    /\ Len(calls) = 3
    /\ pc = "merging"
    /\ tokens = 0
    /\ rewrittenQuery = "rw-2"
    /\ Len(sources) = 2
    /\ \E k \in 1..Len(channel) :
          channel[k].type = "data-research-sources" /\ Len(channel[k].data) = 2

\* C26: wherever the channel holds the complete event, the chunk right
\* before it is status=complete, so a reducer folding the channel in order
\* has status complete when it applies complete.
C26_CompleteRightAfterStatusComplete ==
    \A k \in 1..Len(channel) :
        channel[k].type = "data-research-complete" =>
            /\ k > 1
            /\ channel[k - 1] = Status("complete")
            /\ FoldDeltas(initialState, SubSeq(channel, 1, k - 1)).status
                  = Some("complete")

\* the terminal pair was written and the merged stream then delivered a
\* token and failed
C26_Witness ==
    /\ failedStage = "synthesis-stream"
    /\ tokens = 1
    /\ \E k \in 1..Len(channel) : channel[k].type = "data-research-complete"

\* ------------------------------------------------------------------------
\* Properties of the order of validation and authentication
\* ------------------------------------------------------------------------
\* C27: validation runs before authentication: a body that fails validation
\* gets the 400 response whether or not the caller is authenticated, and
\* auth() is consulted only for bodies that passed validation.
C27_ValidationBeforeAuth ==
    /\ Rejectable(req) =>
          /\ pc \in {"start", "rejected"}
          /\ response \in {0, 400}
          /\ pc = "rejected" => response = 400
    /\ (pc = "auth" \/ response \in {401, 200}) => ~Rejectable(req)

\* an authenticated caller's unparsable body has been rejected
C27_Witness ==
    /\ pc = "rejected"
    /\ response = 400
    /\ authed
    /\ ~req.jsonOk

\* ------------------------------------------------------------------------
\* Properties of the Reasoning component
\* ------------------------------------------------------------------------
\* C28: the timeout callback runs at most once per instance; a timeout is
\* pending only while defaultOpen, not streaming, open and not yet
\* auto-closed all hold; its callback sets hasAutoClosed and closes the
\* panel (an instance whose open prop is passed asks its parent to), and
\* once it has run no timeout is pending again, whatever the user re-opens.
C28_AutoClosesAtMostOnce ==
    [][ /\ fired' <= 1
        /\ timer' => (defaultOpen' /\ ~isStreaming' /\ isOpen' /\ ~hasAutoClosed')
        /\ fired' # fired =>
              (timer /\ hasAutoClosed' /\ (open.isNull => ~isOpen'))
        /\ fired' = 1 => (hasAutoClosed' /\ ~timer') ]_vars

\* the panel auto-closed, the user re-opened it, and no timeout is pending
C28_Witness ==
    /\ fired = 1
    /\ hasAutoClosed
    /\ open.isNull
    /\ defaultOpen
    /\ ~isStreaming
    /\ isOpen
    /\ toggles >= 1
    /\ ~timer

====
